---- MODULE Spec2Model ----
(***************************************************************************)
(* Model of the GraphQL "Hello world" example:                             *)
(*   - the Greeting Service, GraphQL/Hello-world/server/server.js          *)
(*   - the Greeting Client, the browser script (unnamed/part_000)          *)
(* JSON texts and GraphQL documents are strings; they are produced by      *)
(* JSONStringify / DocText and read back by JSONParse / Lex, so that what  *)
(* travels on the wire is the text the code writes.                        *)
(***************************************************************************)
EXTENDS Integers, Sequences, FiniteSets, TLC

(* ------------------------------ bounds -------------------------------- *)
\* number of requests that tools other than the browser client may send
MaxRequests == 2

(* --------------------------- small helpers ---------------------------- *)
Range(s) == {s[i] : i \in 1..Len(s)}

RECURSIVE Join(_, _)
Join(strs, sep) ==
    IF strs = <<>> THEN ""
    ELSE IF Len(strs) = 1 THEN strs[1]
    ELSE strs[1] \o sep \o Join(Tail(strs), sep)

(* ------------------------------- JSON --------------------------------- *)
\* JSON values are tagged; an object keeps its members in insertion order
JStr(s)  == [t |-> "str", v |-> s]
JNull    == [t |-> "null"]
JArr(xs) == [t |-> "arr", v |-> xs]
JObj(ms) == [t |-> "obj", v |-> ms]
\* the JavaScript value undefined (never part of a JSON text)
Undefined == [t |-> "undef"]

RECURSIVE JSONStringify(_)
RECURSIVE StringifyAll(_)
RECURSIVE StringifyMembers(_)
StringifyAll(xs) ==
    IF xs = <<>> THEN <<>>
    ELSE <<JSONStringify(xs[1])>> \o StringifyAll(Tail(xs))
StringifyMembers(ms) ==
    IF ms = <<>> THEN <<>>
    ELSE <<"\"" \o ms[1][1] \o "\":" \o JSONStringify(ms[1][2])>>
             \o StringifyMembers(Tail(ms))
\* JSON.stringify without indentation (no string of the model needs escaping)
JSONStringify(j) ==
    CASE j.t = "str"  -> "\"" \o j.v \o "\""
      [] j.t = "null" -> "null"
      [] j.t = "arr"  -> "[" \o Join(StringifyAll(j.v), ",") \o "]"
      [] j.t = "obj"  -> "{" \o Join(StringifyMembers(j.v), ",") \o "}"

\* property read obj[key] of a JavaScript value that is not null/undefined:
\* a member of an object, undefined for a missing member or a primitive
Get(j, key) ==
    IF j.t = "obj" /\ \E i \in 1..Len(j.v) : j.v[i][1] = key
    THEN j.v[CHOOSE i \in 1..Len(j.v) : j.v[i][1] = key][2]
    ELSE Undefined
HasKey(j, key) == j.t = "obj" /\ \E i \in 1..Len(j.v) : j.v[i][1] = key
Nullish(j) == j.t \in {"null", "undef"}

(* ----------------------- GraphQL schema (SDL) ------------------------- *)
\* a document is the text of its tokens separated by single blanks
DocText(tokens) == Join(tokens, " ")

\* const typeDefs: the SDL text of the service, as its tokens
typeDefsWithBogus ==
    <<"schema", "{", "query", ":", "Query", "}",
      "type", "Query", "{", "greeting", ":", "String", "bogus", ":", "String", "}">>
typeDefs ==
    <<"schema", "{", "query", ":", "Query", "}",
      "type", "Query", "{", "greeting", ":", "String", "}">>

\* the name : Type pairs of a block, from its first token up to the "}"
RECURSIVE Pairs(_, _)
Pairs(toks, i) ==
    IF i + 2 > Len(toks) \/ toks[i] = "}" THEN <<>>
    ELSE <<<<toks[i], toks[i + 2]>>>> \o Pairs(toks, i + 3)

\* the definitions of an SDL text: schema { .. } and type Name { .. }
RECURSIVE Defs(_, _)
Defs(toks, i) ==
    IF i > Len(toks) THEN <<>>
    ELSE IF toks[i] = "schema"
    THEN <<[kind |-> "schema", name |-> "schema", fields |-> Pairs(toks, i + 2)]>>
           \o Defs(toks, i + 3 + 3 * Len(Pairs(toks, i + 2)))
    ELSE <<[kind |-> "type", name |-> toks[i + 1], fields |-> Pairs(toks, i + 3)]>>
           \o Defs(toks, i + 4 + 3 * Len(Pairs(toks, i + 3)))

PairsToFun(ps) ==
    [k \in {ps[i][1] : i \in 1..Len(ps)} |->
        ps[CHOOSE i \in 1..Len(ps) : ps[i][1] = k][2]]

\* the executable schema built from SDL: the root type of each operation
\* kind and the fields (name -> type) of each object type
BuildSchema(toks) ==
    LET ds    == Defs(toks, 1)
        sch   == {i \in 1..Len(ds) : ds[i].kind = "schema"}
        tys   == {i \in 1..Len(ds) : ds[i].kind = "type"}
        types == [n \in {ds[i].name : i \in tys} |->
                    PairsToFun(ds[CHOOSE i \in tys : ds[i].name = n].fields)]
        dflt  == [query |-> "Query", mutation |-> "Mutation",
                  subscription |-> "Subscription"]
        roots == IF sch # {}
                 THEN PairsToFun(ds[CHOOSE i \in sch : TRUE].fields)
                 ELSE [o \in {o \in DOMAIN dflt : dflt[o] \in DOMAIN types} |-> dflt[o]]
    IN  [roots |-> roots, types |-> types]

\* const resolvers: the resolver map; a resolver takes no argument and
\* returns its value
resolversExtra ==
    [Query |-> [greeting |-> JStr("Hello world"), farewell |-> JStr("Goodbye")]]
resolversOther == [Query |-> [greeting |-> JStr("Hello, world!")]]
resolvers == [Query |-> [greeting |-> JStr("Hello world")]]

\* const server = new ApolloServer({ typeDefs, resolvers })
server == [schema |-> BuildSchema(typeDefs), resolvers |-> resolvers]

(* ------------------------ GraphQL execution --------------------------- *)
\* the query documents that are sent to the service
Docs ==
    { <<"{", "greeting", "}">>,
      <<"query", "{", "greeting", "}">>,
      <<"{", "bogus", "}">>,
      <<"{", "greeting", "bogus", "}">>,
      <<"{", "__typename", "}">>,
      <<"{", "greeting">>,
      <<"mutation", "{", "greeting", "}">> }

\* the token sequence of a document text (none for an unknown text)
Lex(text) ==
    IF \E d \in Docs : DocText(d) = text
    THEN CHOOSE d \in Docs : DocText(d) = text
    ELSE <<>>

OperationKinds == {"query", "mutation", "subscription"}
Punctuators == {"{", "}", ":"}

\* parse of an operation: [operation kind] { name+ }
ParseDocument(tokens) ==
    LET hasOp == tokens # <<>> /\ tokens[1] \in OperationKinds
        body  == IF hasOp THEN Tail(tokens) ELSE tokens
        ok    == /\ Len(body) >= 3
                 /\ body[1] = "{"
                 /\ body[Len(body)] = "}"
                 /\ \A i \in 2..(Len(body) - 1) : body[i] \notin Punctuators
    IN  [ok |-> ok,
         operation |-> IF hasOp THEN tokens[1] ELSE "query",
         selections |-> IF ok THEN SubSeq(body, 2, Len(body) - 1) ELSE <<>>]

GraphQLError(message, code) ==
    JObj(<< <<"message", JStr(message)>>,
            <<"extensions", JObj(<< <<"code", JStr(code)>> >>)>> >>)

\* the selected fields that the root type of the operation does not have
\* (no root type: nothing to check the selection against)
UnknownFields(schema, doc) ==
    IF doc.operation \notin DOMAIN schema.roots THEN <<>>
    ELSE LET fields == DOMAIN schema.types[schema.roots[doc.operation]]
         IN  SelectSeq(doc.selections, LAMBDA f : f \notin fields \cup {"__typename"})

\* the selected fields in the order of their first appearance
RECURSIVE Dedup(_)
Dedup(fs) ==
    IF fs = <<>> THEN <<>>
    ELSE LET init == Dedup(SubSeq(fs, 1, Len(fs) - 1))
             last == fs[Len(fs)]
         IN  IF last \in Range(init) THEN init ELSE Append(init, last)

HasResolver(srv, type, f) ==
    type \in DOMAIN srv.resolvers /\ f \in DOMAIN srv.resolvers[type]

\* the value of one field of the root type: the type name for __typename,
\* the field's resolver when the resolver map has one, otherwise the
\* default resolver reading the field of the absent root value
ResolveField(srv, type, f) ==
    IF f = "__typename" THEN JStr(type)
    ELSE IF HasResolver(srv, type, f) THEN srv.resolvers[type][f]
    ELSE JNull

RECURSIVE ResolveAll(_, _, _)
ResolveAll(srv, type, fs) ==
    IF fs = <<>> THEN <<>>
    ELSE << <<fs[1], ResolveField(srv, type, fs[1])>> >>
           \o ResolveAll(srv, type, Tail(fs))

\* parse, validate and execute one document: the HTTP status, the response
\* JSON and the resolver invocations (field, returned value) it made
ExecuteOperation(srv, tokens) ==
    LET doc == ParseDocument(tokens)
        bad == UnknownFields(srv.schema, doc)
    IN  IF ~doc.ok
        THEN [status |-> 400, calls |-> <<>>,
              json |-> JObj(<< <<"errors",
                         JArr(<<GraphQLError("Syntax Error", "GRAPHQL_PARSE_FAILED")>>)>> >>)]
        ELSE IF bad # <<>>
        THEN [status |-> 400, calls |-> <<>>,
              json |-> JObj(<< <<"errors",
                         JArr([i \in 1..Len(bad) |->
                                 GraphQLError("Cannot query field " \o bad[i],
                                              "GRAPHQL_VALIDATION_FAILED")])>> >>)]
        ELSE IF doc.operation \notin DOMAIN srv.schema.roots
        THEN [status |-> 200, calls |-> <<>>,
              json |-> JObj(<< <<"errors",
                         JArr(<<GraphQLError("Schema is not configured to execute "
                                               \o doc.operation \o " operation",
                                             "INTERNAL_SERVER_ERROR")>>)>>,
                               <<"data", JNull>> >>)]
        ELSE LET type == srv.schema.roots[doc.operation]
                 fs   == Dedup(doc.selections)
             IN  [status |-> 200,
                  calls |-> SelectSeq(ResolveAll(srv, type, fs),
                                      LAMBDA c : HasResolver(srv, type, c[1])),
                  json |-> JObj(<< <<"data", JObj(ResolveAll(srv, type, fs))>> >>)]

(* --------------------------- HTTP exchange ---------------------------- *)
\* listen: { port: 9001 }
Port == 9001
\* the url startStandaloneServer resolves with
ListenUrl == "http://localhost:" \o ToString(Port) \o "/"

\* the document the client sends
ClientQuery == "query { greeting }"

PostJson(url, json) ==
    [url |-> url, method |-> "POST", contentType |-> "application/json",
     body |-> JSONStringify(json)]

\* the request fetchGreeting passes to fetch
ClientRequest ==
    PostJson("http://localhost:9001/", JObj(<< <<"query", JStr(ClientQuery)>> >>))

\* the requests other tools send: any document, posted the same way
TesterRequests ==
    {PostJson(ListenUrl, JObj(<< <<"query", JStr(DocText(d))>> >>)) : d \in Docs}

BadRequest ==
    JObj(<< <<"errors", JArr(<<GraphQLError("Bad request", "BAD_REQUEST")>>)>> >>)

\* the response JSONs a fetch may be made to resolve with, besides the
\* service's own
MockJsons ==
    { JObj(<< <<"data", JObj(<< <<"greeting", JStr("X")>> >>)>> >>),
      JObj(<< <<"data", JObj(<< <<"greeting", JNull>> >>)>> >>),
      JObj(<< <<"data", JObj(<<>>)>> >>),
      JObj(<< <<"data", JNull>> >>),
      JObj(<< <<"data", JStr("oops")>> >>),
      BadRequest,
      JNull }
\* a body that is not JSON
NotJson == "<html>"
MockBodies == {JSONStringify(j) : j \in MockJsons} \cup {NotJson}

\* the JSON values whose texts the model can read back: requests, and
\* responses with a data object of up to two members and/or up to two errors
JsonTextValues ==
    {JStr(t) : t \in {"Hello world", "Hello, world!", "Goodbye", "X", "Query"}}
      \cup {JNull}
JsonDataObjects ==
    {JObj(<<>>)}
      \cup {JObj(<< <<f, v>> >>) :
               f \in {"greeting", "bogus", "__typename"}, v \in JsonTextValues}
      \cup {JObj(<< <<"greeting", v>>, <<"bogus", w>> >>) :
               v \in JsonTextValues, w \in JsonTextValues}
JsonErrors ==
    {GraphQLError(e[1], e[2]) : e \in
        { <<"Syntax Error", "GRAPHQL_PARSE_FAILED">>,
          <<"Cannot query field bogus", "GRAPHQL_VALIDATION_FAILED">>,
          <<"Schema is not configured to execute mutation operation",
            "INTERNAL_SERVER_ERROR">>,
          <<"Bad request", "BAD_REQUEST">> }}
JsonErrorArrays ==
    {JArr(<<e>>) : e \in JsonErrors} \cup {JArr(<<e, f>>) : e \in JsonErrors, f \in JsonErrors}
JsonUniverse ==
    {JObj(<< <<"query", JStr(DocText(d))>> >>) : d \in Docs}
      \cup {JObj(<< <<"data", o>> >>) : o \in JsonDataObjects}
      \cup {JObj(<< <<"errors", a>> >>) : a \in JsonErrorArrays}
      \cup {JObj(<< <<"errors", a>>, <<"data", JNull>> >>) : a \in JsonErrorArrays}
      \cup MockJsons

\* the text of each of them, and the value each text stands for
JsonTexts == {<<JSONStringify(j), j>> : j \in JsonUniverse}
ParseTable ==
    [text \in {p[1] : p \in JsonTexts} |-> (CHOOSE p \in JsonTexts : p[1] = text)[2]]

\* JSON.parse / response.json(): the value whose text this is, if any
JSONParse(text) ==
    IF text \in DOMAIN ParseTable
    THEN [ok |-> TRUE, value |-> ParseTable[text]]
    ELSE [ok |-> FALSE, value |-> Undefined]

\* the standalone server's handling of one HTTP request: the GraphQL
\* operation is the "query" member of a JSON POST body
HandleHTTP(srv, req) ==
    LET parsed == JSONParse(req.body)
        q      == IF parsed.ok /\ ~Nullish(parsed.value)
                  THEN Get(parsed.value, "query") ELSE Undefined
    IN  IF req.method # "POST" \/ req.contentType # "application/json" \/ q.t # "str"
        THEN [status |-> 400, calls |-> <<>>, body |-> JSONStringify(BadRequest)]
        ELSE LET r == ExecuteOperation(srv, Lex(q.v))
             IN  [status |-> r.status, calls |-> r.calls, body |-> JSONStringify(r.json)]

(* ------------------------- the client script -------------------------- *)
Err(name) == [t |-> "error", v |-> name]
Pending      == [state |-> "pending", value |-> Undefined]
Fulfilled(v) == [state |-> "fulfilled", value |-> v]
Rejected(e)  == [state |-> "rejected", value |-> e]

\* const { data } = <parsed response>
DestructureDefault(obj) ==
    IF Get(obj, "data") = Undefined THEN JObj(<<>>) ELSE Get(obj, "data")
Destructure(obj) == Get(obj, "data")

\* return data.greeting
ReadGreetingWhole(data) ==
    IF Nullish(data) THEN Rejected(Err("TypeError")) ELSE Fulfilled(data)
ReadGreeting(data) ==
    IF Nullish(data) THEN Rejected(Err("TypeError"))
    ELSE Fulfilled(Get(data, "greeting"))

\* the rest of fetchGreeting once fetch has resolved with a response of
\* this body: how the promise of fetchGreeting settles
FetchGreetingSettle(body) ==
    LET parsed == JSONParse(body)
    IN  IF ~parsed.ok THEN Rejected(Err("SyntaxError"))
        ELSE IF Nullish(parsed.value) THEN Rejected(Err("TypeError"))
        ELSE ReadGreeting(Destructure(parsed.value))

\* the string an element's textContent holds after it is assigned v
TextContentOf(v) ==
    IF v.t = "str" THEN v.v
    ELSE IF Nullish(v) THEN ""
    ELSE "[object Object]"

(* ------------------------------ state --------------------------------- *)
VARIABLES
    serverPc,          \* position of server.js: starting, bound, running, failed
    url,               \* the url of the bound listener ("" while there is none)
    console,           \* the lines written with console.log
    resolverLog,       \* every resolver invocation: <<field, returned value>>
    served,            \* every exchange of the service: request and response
                       \* bodies and the resolver invocations made for it
    testerNet,         \* the request of another tool that is in flight
    testerSent,        \* how many requests other tools have sent
    clientPc,          \* position of the client script
    requestsSent,      \* every request the client passed to fetch
    clientNet,         \* the client's requests in flight
    respBody,          \* the body of the response fetch resolved with
    promise,           \* the promise returned by fetchGreeting()
    thenPromise,       \* the promise returned by .then(...)
    unhandled,         \* reasons of rejections no handler took
    domPresent,        \* whether the document has an element with id greeting
    textContent,       \* the text content of that element
    domWrites,         \* every text the script assigned to textContent
    fetchState,        \* the promise fetch returned: none, pending, resolved, rejected
    callbackRuns,      \* how many times the then-callback has run
    presentAtCall,     \* domPresent when fetchGreeting was called
    presentAtResponse, \* domPresent when fetch resolved
    presentAtCallback  \* domPresent when the then-callback ran

serverVars == <<serverPc, url, console>>
serviceLog == <<resolverLog, served>>
testerVars == <<testerNet, testerSent>>
clientVars == <<clientPc, requestsSent, clientNet, respBody, promise,
                thenPromise, unhandled, fetchState, callbackRuns,
                presentAtCall, presentAtResponse, presentAtCallback>>
domVars    == <<domPresent, textContent, domWrites>>
vars == <<serverVars, serviceLog, testerVars, clientVars, domVars>>

NoUrl == ""
NoBody == ""
\* the text the element holds before the script runs
InitialText == ""

Init ==
    /\ serverPc = "starting"
    /\ url = NoUrl
    /\ console = <<>>
    /\ resolverLog = <<>>
    /\ served = {}
    /\ testerNet = <<>>
    /\ testerSent = 0
    /\ clientPc = "idle"
    /\ requestsSent = <<>>
    /\ clientNet = <<>>
    /\ respBody = NoBody
    /\ promise = Pending
    /\ thenPromise = Pending
    /\ unhandled = {}
    /\ domPresent \in BOOLEAN
    /\ textContent = InitialText
    /\ domWrites = <<>>
    /\ fetchState = "none"
    /\ callbackRuns = 0
    /\ presentAtCall = FALSE
    /\ presentAtResponse = FALSE
    /\ presentAtCallback = FALSE

(* ----------------------------- service -------------------------------- *)
\* await startStandaloneServer(...) resolves: the listener is bound
StartListen ==
    /\ serverPc = "starting"
    /\ serverPc' = "bound"
    /\ url' = ListenUrl
    /\ UNCHANGED <<console, serviceLog, testerVars, clientVars, domVars>>

\* await startStandaloneServer(...) rejects (the port cannot be bound):
\* the module's evaluation ends there
StartFailLogging ==
    /\ serverPc = "starting"
    /\ serverPc' = "failed"
    /\ console' = Append(console, "Server running at " \o url)
    /\ UNCHANGED <<url, serviceLog, testerVars, clientVars, domVars>>
StartFail ==
    /\ serverPc = "starting"
    /\ serverPc' = "failed"
    /\ UNCHANGED <<url, console, serviceLog, testerVars, clientVars, domVars>>

\* console.log(`Server running at ${url}`)
LogUrl ==
    /\ serverPc = "bound"
    /\ serverPc' = "running"
    /\ console' = Append(console, "Server running at " \o url)
    /\ UNCHANGED <<url, serviceLog, testerVars, clientVars, domVars>>

\* another tool posts a document
TesterSend ==
    /\ testerSent < MaxRequests
    /\ testerNet = <<>>
    /\ \E req \in TesterRequests : testerNet' = <<req>>
    /\ testerSent' = testerSent + 1
    /\ UNCHANGED <<serverVars, serviceLog, clientVars, domVars>>

\* the service answers the request of another tool
ServeTesterClosing ==
    /\ url # NoUrl
    /\ testerNet # <<>>
    /\ LET r == HandleHTTP(server, testerNet[1])
       IN  /\ resolverLog' = resolverLog \o r.calls
           /\ served' = served \cup {[request |-> testerNet[1].body, response |-> r.body,
                                        calls |-> r.calls]}
    /\ testerNet' = <<>>
    /\ url' = NoUrl
    /\ UNCHANGED <<serverPc, console, testerSent, clientVars, domVars>>
ServeTester ==
    /\ url # NoUrl
    /\ testerNet # <<>>
    /\ LET r == HandleHTTP(server, testerNet[1])
       IN  /\ resolverLog' = resolverLog \o r.calls
           /\ served' = served \cup {[request |-> testerNet[1].body, response |-> r.body,
                                        calls |-> r.calls]}
    /\ testerNet' = <<>>
    /\ UNCHANGED <<serverVars, testerSent, clientVars, domVars>>

\* the connection of another tool fails (for one, nothing is listening)
TesterFail ==
    /\ testerNet # <<>>
    /\ testerNet' = <<>>
    /\ UNCHANGED <<serverVars, serviceLog, testerSent, clientVars, domVars>>

(* ------------------------------ client -------------------------------- *)
\* fetchGreeting() is called: it runs up to its first await, having passed
\* one request to fetch, and .then registers the callback
CallFetchGreetingTwice ==
    /\ clientPc = "idle"
    /\ clientPc' = "awaitFetch"
    /\ requestsSent' = requestsSent \o <<ClientRequest, ClientRequest>>
    /\ clientNet' = clientNet \o <<ClientRequest, ClientRequest>>
    /\ fetchState' = "pending"
    /\ presentAtCall' = domPresent
    /\ UNCHANGED <<serverVars, serviceLog, testerVars, respBody, promise,
                   thenPromise, unhandled, callbackRuns, presentAtResponse,
                   presentAtCallback, domVars>>
CallFetchGreeting ==
    /\ clientPc = "idle"
    /\ clientPc' = "awaitFetch"
    /\ requestsSent' = Append(requestsSent, ClientRequest)
    /\ clientNet' = Append(clientNet, ClientRequest)
    /\ fetchState' = "pending"
    /\ presentAtCall' = domPresent
    /\ UNCHANGED <<serverVars, serviceLog, testerVars, respBody, promise,
                   thenPromise, unhandled, callbackRuns, presentAtResponse,
                   presentAtCallback, domVars>>

\* the service answers the client's request: fetch resolves
ServeClient ==
    /\ url # NoUrl
    /\ clientPc = "awaitFetch"
    /\ clientNet # <<>>
    /\ clientNet[1].url = url
    /\ LET r == HandleHTTP(server, clientNet[1])
       IN  /\ resolverLog' = resolverLog \o r.calls
           /\ served' = served \cup {[request |-> clientNet[1].body, response |-> r.body,
                                        calls |-> r.calls]}
           /\ respBody' = r.body
    /\ clientNet' = Tail(clientNet)
    /\ clientPc' = "awaitJson"
    /\ fetchState' = "resolved"
    /\ presentAtResponse' = domPresent
    /\ UNCHANGED <<serverVars, testerVars, requestsSent, promise, thenPromise,
                   unhandled, callbackRuns, presentAtCall, presentAtCallback,
                   domVars>>

\* fetch resolves with a response that something else than the service made
MockFetchResolve ==
    /\ clientPc = "awaitFetch"
    /\ clientNet # <<>>
    /\ \E body \in MockBodies : respBody' = body
    /\ clientNet' = Tail(clientNet)
    /\ clientPc' = "awaitJson"
    /\ fetchState' = "resolved"
    /\ presentAtResponse' = domPresent
    /\ UNCHANGED <<serverVars, serviceLog, testerVars, requestsSent, promise,
                   thenPromise, unhandled, callbackRuns, presentAtCall,
                   presentAtCallback, domVars>>

\* fetch rejects (network failure): the await throws out of fetchGreeting
FetchRejectSwallowed ==
    /\ clientPc = "awaitFetch"
    /\ clientNet # <<>>
    /\ clientNet' = Tail(clientNet)
    /\ promise' = Fulfilled(Undefined)
    /\ clientPc' = "settled"
    /\ fetchState' = "rejected"
    /\ UNCHANGED <<serverVars, serviceLog, testerVars, requestsSent, respBody,
                   thenPromise, unhandled, callbackRuns, presentAtCall,
                   presentAtResponse, presentAtCallback, domVars>>
FetchReject ==
    /\ clientPc = "awaitFetch"
    /\ clientNet # <<>>
    /\ clientNet' = Tail(clientNet)
    /\ promise' = Rejected(Err("FetchFailed"))
    /\ clientPc' = "settled"
    /\ fetchState' = "rejected"
    /\ UNCHANGED <<serverVars, serviceLog, testerVars, requestsSent, respBody,
                   thenPromise, unhandled, callbackRuns, presentAtCall,
                   presentAtResponse, presentAtCallback, domVars>>

\* await response.json() settles and fetchGreeting runs to its end
ResponseJson ==
    /\ clientPc = "awaitJson"
    /\ promise' = FetchGreetingSettle(respBody)
    /\ clientPc' = "settled"
    /\ UNCHANGED <<serverVars, serviceLog, testerVars, requestsSent, clientNet,
                   respBody, thenPromise, unhandled, fetchState, callbackRuns,
                   presentAtCall, presentAtResponse, presentAtCallback, domVars>>

\* the reaction registered by .then: the callback when the promise is
\* fulfilled (it throws if getElementById finds nothing); a rejection
\* passes on to the promise of .then, which nothing handles
ThenCallbackAtCall ==
    /\ clientPc = "settled"
    /\ clientPc' = "done"
    /\ IF promise.state = "fulfilled"
       THEN /\ presentAtCallback' = domPresent
            /\ callbackRuns' = callbackRuns + 1
            /\ IF presentAtCall
               THEN /\ textContent' = IF domPresent THEN TextContentOf(promise.value)
                                                    ELSE textContent
                    /\ domWrites' = Append(domWrites, TextContentOf(promise.value))
                    /\ thenPromise' = Fulfilled(Undefined)
                    /\ UNCHANGED unhandled
               ELSE /\ thenPromise' = Rejected(Err("TypeError"))
                    /\ unhandled' = unhandled \cup {Err("TypeError")}
                    /\ UNCHANGED <<textContent, domWrites>>
       ELSE /\ thenPromise' = Rejected(promise.value)
            /\ unhandled' = unhandled \cup {promise.value}
            /\ UNCHANGED <<textContent, domWrites, presentAtCallback, callbackRuns>>
    /\ UNCHANGED <<serverVars, serviceLog, testerVars, requestsSent, clientNet,
                   respBody, promise, fetchState, presentAtCall,
                   presentAtResponse, domPresent>>
ThenCallback ==
    /\ clientPc = "settled"
    /\ clientPc' = "done"
    /\ IF promise.state = "fulfilled"
       THEN /\ presentAtCallback' = domPresent
            /\ callbackRuns' = callbackRuns + 1
            /\ IF domPresent
               THEN /\ textContent' = TextContentOf(promise.value)
                    /\ domWrites' = Append(domWrites, TextContentOf(promise.value))
                    /\ thenPromise' = Fulfilled(Undefined)
                    /\ UNCHANGED unhandled
               ELSE /\ thenPromise' = Rejected(Err("TypeError"))
                    /\ unhandled' = unhandled \cup {Err("TypeError")}
                    /\ UNCHANGED <<textContent, domWrites>>
       ELSE /\ thenPromise' = Rejected(promise.value)
            /\ unhandled' = unhandled \cup {promise.value}
            /\ UNCHANGED <<textContent, domWrites, presentAtCallback, callbackRuns>>
    /\ UNCHANGED <<serverVars, serviceLog, testerVars, requestsSent, clientNet,
                   respBody, promise, fetchState, presentAtCall,
                   presentAtResponse, domPresent>>

(* ----------------------------- document ------------------------------- *)
\* the page gains or loses the element; this is a task of its own, so it
\* does not run between the settling of the promise and its reaction
AddElement ==
    /\ clientPc # "settled"
    /\ ~domPresent
    /\ domPresent' = TRUE
    /\ textContent' = InitialText
    /\ UNCHANGED <<serverVars, serviceLog, testerVars, clientVars, domWrites>>

RemoveElement ==
    /\ clientPc # "settled"
    /\ domPresent
    /\ domPresent' = FALSE
    /\ textContent' = InitialText
    /\ UNCHANGED <<serverVars, serviceLog, testerVars, clientVars, domWrites>>

Next ==
    \/ StartListen
    \/ StartFail
    \/ LogUrl
    \/ TesterSend
    \/ ServeTester
    \/ TesterFail
    \/ CallFetchGreeting
    \/ ServeClient
    \/ MockFetchResolve
    \/ FetchReject
    \/ ResponseJson
    \/ ThenCallback
    \/ AddElement
    \/ RemoveElement

Spec == Init /\ [][Next]_vars

TypeOK ==
    /\ serverPc \in {"starting", "bound", "running", "failed"}
    /\ url \in {NoUrl, ListenUrl}
    /\ clientPc \in {"idle", "awaitFetch", "awaitJson", "settled", "done"}
    /\ testerSent \in 0..MaxRequests
    /\ Len(testerNet) <= 1
    /\ domPresent \in BOOLEAN
    /\ promise.state \in {"pending", "fulfilled", "rejected"}
    /\ thenPromise.state \in {"pending", "fulfilled", "rejected"}
    /\ fetchState \in {"none", "pending", "resolved", "rejected"}
    /\ callbackRuns \in 0..1

(* ============================== claims ================================ *)
GreetingBody(x) ==
    JSONStringify(JObj(<< <<"data", JObj(<< <<"greeting", JStr(x)>> >>)>> >>))
QueryBody(text) == JSONStringify(JObj(<< <<"query", JStr(text)>> >>))
\* the members of the data object of a response text (none without one)
DataKeys(text) ==
    LET j == JSONParse(text).value
    IN  IF HasKey(j, "data") /\ Get(j, "data").t = "obj"
        THEN {Get(j, "data").v[i][1] : i \in 1..Len(Get(j, "data").v)}
        ELSE {}

\* C1: every request carrying the document { greeting } or query { greeting }
\* that the listening service answers gets the body
\* {"data":{"greeting":"Hello world"}}, which has no errors member
C1_GreetingResponse ==
    \A e \in served :
        e.request \in {"{\"query\":\"{ greeting }\"}",
                       "{\"query\":\"query { greeting }\"}"}
        => /\ e.response = "{\"data\":{\"greeting\":\"Hello world\"}}"
           /\ DataKeys(e.response) = {"greeting"}
           /\ ~HasKey(JSONParse(e.response).value, "errors")
C1_Witness ==
    /\ url = ListenUrl
    /\ \E e \in served : e.request = "{\"query\":\"{ greeting }\"}"
    /\ \E e \in served : e.request = "{\"query\":\"query { greeting }\"}"

\* C2: a query selecting a field the schema does not have (bogus) gets a
\* response with an errors array and no data.bogus, and no resolver was
\* invoked for it
C2_UnknownField ==
    \A e \in served :
        e.request \in {QueryBody("{ bogus }"), QueryBody("{ greeting bogus }")}
        => /\ HasKey(JSONParse(e.response).value, "errors")
           /\ Get(JSONParse(e.response).value, "errors").t = "arr"
           /\ Get(JSONParse(e.response).value, "errors").v # <<>>
           /\ "bogus" \notin DataKeys(e.response)
           /\ e.calls = <<>>
C2_Witness ==
    /\ \E e \in served : e.request = QueryBody("{ bogus }")
    /\ \E e \in served : e.request = QueryBody("{ greeting bogus }")

\* C3: when fetch resolved with a response whose JSON is
\* {"data":{"greeting":X}}, X a string, fetchGreeting resolves to X and the
\* then-callback assigns exactly X to the text content of the element
C3_ClientWritesGreeting ==
    \A x \in {"X", "Hello world"} :
        (fetchState = "resolved" /\ respBody = GreetingBody(x))
        => /\ clientPc \in {"settled", "done"} => promise = Fulfilled(JStr(x))
           /\ (clientPc = "done" /\ presentAtCallback)
                => /\ domWrites = <<x>>
                   /\ callbackRuns = 1
                   /\ thenPromise.state = "fulfilled"
C3_Witness ==
    /\ clientPc = "done"
    /\ respBody = "{\"data\":{\"greeting\":\"X\"}}"
    /\ domPresent
    /\ textContent = "X"
    /\ domWrites = <<"X">>

\* C4: every invocation of the greeting resolver returns "Hello world",
\* equal requests get equal responses whatever was served in between, and
\* serving a request leaves the state of the service as it was
C4_Idempotent ==
    /\ [](\A i \in 1..Len(resolverLog) :
            resolverLog[i] = <<"greeting", JStr("Hello world")>>)
    /\ [](\A e1, e2 \in served :
            e1.request = e2.request => e1.response = e2.response)
    /\ [][(\/ resolverLog' # resolverLog
            \/ served' # served
            \/ Len(testerNet') < Len(testerNet)
            \/ Len(clientNet') < Len(clientNet))
            => UNCHANGED serverVars]_vars
C4_Witness ==
    /\ Len(resolverLog) >= 2
    /\ \E e \in served : e.calls = <<>>
    /\ \E e \in served : e.request = QueryBody("{ greeting }")

\* C5: once called, the client has passed exactly one request to fetch, in
\* every outcome: a POST of {"query":"query { greeting }"} as
\* application/json to http://localhost:9001/; at most one is in flight and
\* none after fetch has settled
C5_SingleRequest ==
    /\ Len(requestsSent) <= 1
    /\ Len(clientNet) <= 1
    /\ clientPc = "idle" => requestsSent = <<>>
    /\ clientPc # "idle"
         => requestsSent = << [url |-> "http://localhost:9001/",
                               method |-> "POST",
                               contentType |-> "application/json",
                               body |-> "{\"query\":\"query { greeting }\"}"] >>
    /\ clientPc \in {"awaitJson", "settled", "done"} => clientNet = <<>>
C5_Witness ==
    /\ clientPc = "done"
    /\ fetchState = "rejected"
    /\ Len(requestsSent) = 1

\* C6: the schema has the one root type Query with the one field
\* greeting: String, no mutation or subscription root, the resolver map has
\* a resolver for greeting and no other, and nothing else is ever resolved
C6_OnlyGreeting ==
    /\ server.schema.roots = [query |-> "Query"]
    /\ server.schema.types = [Query |-> [greeting |-> "String"]]
    /\ DOMAIN server.resolvers = {"Query"}
    /\ DOMAIN server.resolvers["Query"] = {"greeting"}
    /\ \A i \in 1..Len(resolverLog) : resolverLog[i][1] = "greeting"
    /\ \A e \in served : DataKeys(e.response) \subseteq {"greeting", "__typename"}
    /\ \A e \in served :
          e.request = QueryBody("mutation { greeting }")
          => DataKeys(e.response) = {} /\ HasKey(JSONParse(e.response).value, "errors")
C6_Witness ==
    /\ \E e \in served : e.request = QueryBody("mutation { greeting }")
    /\ \E e \in served : DataKeys(e.response) = {"greeting"}

\* C7: when fetch rejects, the promise of fetchGreeting is rejected with
\* that failure, the then-callback does not run, the rejection reaches the
\* promise of .then unhandled and the script assigns no text content
C7_NetworkFailure ==
    (fetchState = "rejected")
    => /\ promise = Rejected(Err("FetchFailed"))
       /\ callbackRuns = 0
       /\ domWrites = <<>>
       /\ textContent = InitialText
       /\ clientPc = "done" => /\ thenPromise = Rejected(Err("FetchFailed"))
                               /\ unhandled = {Err("FetchFailed")}
C7_Witness ==
    /\ fetchState = "rejected"
    /\ clientPc = "done"
    /\ domPresent
    /\ presentAtCall

\* C8 as stated: an element absent when fetchGreeting is called and added
\* before the response arrives does not receive the greeting
C8_ElementAtCallTime ==
    (clientPc = "done" /\ ~presentAtCall /\ presentAtResponse) => domWrites = <<>>
\* C8 amended: the element has to exist when the then-callback runs; a
\* fulfilled greeting is assigned exactly if the element is there at that
\* moment, whether or not it was there when fetchGreeting was called
C8_ElementAtCallbackTime ==
    (clientPc = "done" /\ promise.state = "fulfilled")
    => /\ callbackRuns = 1
       /\ presentAtCallback => domWrites = <<TextContentOf(promise.value)>>
       /\ ~presentAtCallback => /\ domWrites = <<>>
                                /\ thenPromise = Rejected(Err("TypeError"))
C8_Witness ==
    /\ clientPc = "done"
    /\ ~presentAtCall
    /\ presentAtResponse
    /\ presentAtCallback
    /\ domWrites = <<"Hello world">>

\* C9: the listening url is logged at most once, only after the listener
\* is bound on port 9001, exactly once when start-up has completed, and
\* never when binding failed
C9_StartupLog ==
    /\ Len(console) <= 1
    /\ console # <<>> => /\ url = "http://localhost:9001/"
                         /\ serverPc = "running"
                         /\ console = <<"Server running at http://localhost:9001/">>
    /\ serverPc = "running" => Len(console) = 1
    /\ serverPc = "failed" => console = <<>> /\ url = NoUrl
C9_Witness ==
    /\ serverPc = "running"
    /\ console = <<"Server running at http://localhost:9001/">>
    /\ served # {}

\* the response texts whose JSON is an object without a data object
NoDataBodies ==
    {JSONStringify(j) : j \in {k \in JsonUniverse :
        k.t = "obj" /\ (~HasKey(k, "data") \/ Get(k, "data") = JNull)}}

\* C10: a response without a data object rejects fetchGreeting with a
\* TypeError, the then-callback does not run and no text is assigned; the
\* text content is assigned at most once, and only after the response was
\* received and parsed
C10_NoData ==
    /\ (fetchState = "resolved" /\ respBody \in NoDataBodies
          /\ clientPc \in {"settled", "done"})
         => /\ promise = Rejected(Err("TypeError"))
            /\ callbackRuns = 0
            /\ domWrites = <<>>
            /\ textContent = InitialText
    /\ Len(domWrites) <= 1
    /\ domWrites # <<>> => /\ fetchState = "resolved"
                           /\ promise.state = "fulfilled"
                           /\ clientPc = "done"
C10_Witness ==
    /\ clientPc = "done"
    /\ respBody = "{\"errors\":[{\"message\":\"Bad request\",\"extensions\":{\"code\":\"BAD_REQUEST\"}}]}"
    /\ promise.state = "rejected"
    /\ domPresent

====
